---------------------------- MODULE Spec2Model ----------------------------
(***************************************************************************)
(* A model of the recursive crawl-and-segment engine of RAG/URL_Crawler.py *)
(* (crawl_to_markdown and its helpers).                                    *)
(*                                                                         *)
(* Python strings are sequences of one-character strings, so that parsing, *)
(* joining and sanitising are computed character by character as the code  *)
(* computes them.  The HTTP fetch, the HTML parser and the markdown        *)
(* converter are libraries: a fetch is a nondeterministic choice of a      *)
(* failure or of a parsed page, a parsed page is a tree of nodes.          *)
(***************************************************************************)
EXTENDS Integers, Sequences, FiniteSets, TLC

(***************************************************************************)
(* Bounds of the model.                                                    *)
(***************************************************************************)
MaxDepthBound == 3      \* max_depth ranges over 0..MaxDepthBound
MaxAnchors == 4         \* the pages fetched in a run hold at most MaxAnchors anchors together

(***************************************************************************)
(* Python evaluates the arguments of a call once, before the call.  The    *)
(* operators below do the same: an operator first binds the values of its  *)
(* arguments (s \in {s_}) and then computes with the bound values.         *)
(***************************************************************************)
the(S) == CHOOSE x \in S : TRUE

(***************************************************************************)
(* Python str operations on character sequences.                           *)
(***************************************************************************)
startswith(s_, p_) ==
    \E s \in {s_}, p \in {p_} : Len(p) <= Len(s) /\ SubSeq(s, 1, Len(p)) = p

\* p in s
contains(s_, p_) ==
    \E s \in {s_}, p \in {p_} :
        \E i \in 1..(Len(s) - Len(p) + 1) : SubSeq(s, i, i + Len(p) - 1) = p

\* s.find(c) + 1 for a one-character c: position of the first c, 0 if none
find(s_, c) ==
    the({ IF \E i \in 1..Len(s) : s[i] = c
          THEN CHOOSE i \in 1..Len(s) : s[i] = c /\ \A j \in 1..(i - 1) : s[j] # c
          ELSE 0 : s \in {s_} })

\* s.rfind(c) + 1
rfind(s_, c) ==
    the({ IF \E i \in 1..Len(s) : s[i] = c
          THEN CHOOSE i \in 1..Len(s) : s[i] = c /\ \A j \in (i + 1)..Len(s) : s[j] # c
          ELSE 0 : s \in {s_} })

\* position of the first character of s that is in the set cs, Len(s)+1 if none
findAny(s_, cs) ==
    the({ IF \E i \in 1..Len(s) : s[i] \in cs
          THEN CHOOSE i \in 1..Len(s) : s[i] \in cs /\ \A j \in 1..(i - 1) : s[j] \notin cs
          ELSE Len(s) + 1 : s \in {s_} })

\* s[i:] with i counted from 1
from(s_, i_) == the({ SubSeq(s, i, Len(s)) : s \in {s_}, i \in {i_} })

\* s[:i] with i counted from 1 and excluded
before(s_, i_) == the({ SubSeq(s, 1, i - 1) : s \in {s_}, i \in {i_} })

RECURSIVE replace(_, _, _)
\* s.replace(old, new): leftmost non-overlapping occurrences
replace(s_, old_, new_) ==
    the({ IF s = <<>> THEN <<>>
          ELSE IF startswith(s, old) THEN new \o replace(from(s, Len(old) + 1), old, new)
          ELSE <<Head(s)>> \o replace(Tail(s), old, new)
          : s \in {s_}, old \in {old_}, new \in {new_} })

RECURSIVE lstrip(_, _)
lstrip(s_, cs_) ==
    the({ IF s # <<>> /\ Head(s) \in cs THEN lstrip(Tail(s), cs) ELSE s
          : s \in {s_}, cs \in {cs_} })

RECURSIVE rstrip(_, _)
rstrip(s_, cs_) ==
    the({ IF s # <<>> /\ s[Len(s)] \in cs THEN rstrip(SubSeq(s, 1, Len(s) - 1), cs) ELSE s
          : s \in {s_}, cs \in {cs_} })

\* s.strip(chars)
strip(s, cs) == rstrip(lstrip(s, cs), cs)

Whitespace == {" "}

UpperCase == <<"A", "B", "C", "D", "E", "F", "G", "H", "I", "J", "K", "L", "M",
               "N", "O", "P", "Q", "R", "S", "T", "U", "V", "W", "X", "Y", "Z">>
LowerCase == <<"a", "b", "c", "d", "e", "f", "g", "h", "i", "j", "k", "l", "m",
               "n", "o", "p", "q", "r", "s", "t", "u", "v", "w", "x", "y", "z">>

\* s.lower()
lower(s_) ==
    the({ [i \in 1..Len(s) |->
              IF \E k \in 1..Len(UpperCase) : UpperCase[k] = s[i]
              THEN LowerCase[CHOOSE k \in 1..Len(UpperCase) : UpperCase[k] = s[i]]
              ELSE s[i]] : s \in {s_} })

\* re.sub('[<class>]', repl, s) for a one-character class and a replacement
\* of at most one character (repl is a sequence)
RECURSIVE re_sub(_, _, _)
re_sub(cs_, repl_, s_) ==
    the({ IF s = <<>> THEN <<>>
          ELSE (IF Head(s) \in cs THEN repl ELSE <<Head(s)>>) \o re_sub(cs, repl, Tail(s))
          : cs \in {cs_}, repl \in {repl_}, s \in {s_} })

Digits == <<"0", "1", "2", "3", "4", "5", "6", "7", "8", "9">>

\* str(n) for 0 <= n <= 99
str(n_) ==
    the({ IF n < 10 THEN <<Digits[n + 1]>>
          ELSE <<Digits[(n \div 10) + 1], Digits[(n % 10) + 1]>> : n \in {n_} })

(***************************************************************************)
(* urllib.parse: urlparse and urljoin, for URLs of the forms               *)
(* [scheme:][//netloc][path][?query][#fragment] without "." and ".." path  *)
(* segments and without ";params".                                         *)
(***************************************************************************)
SchemeChars == {LowerCase[k] : k \in 1..Len(LowerCase)} \cup {UpperCase[k] : k \in 1..Len(UpperCase)}

\* the position i of the first ":" ends the scheme when only letters precede it
scheme_end_at(url, i_) ==
    the({ IF i > 1 /\ \A j \in 1..(i - 1) : url[j] \in SchemeChars THEN i ELSE 0 : i \in {i_} })

\* the position of the ":" that ends the scheme, 0 when the URL has no scheme
schemeEnd(url_) == the({ scheme_end_at(url, find(url, ":")) : url \in {url_} })

\* urlsplit, last step: the query is what follows the first "?"
split_query(scheme, netloc, rest_, fragment) ==
    the({ [scheme   |-> scheme,
           netloc   |-> netloc,
           path     |-> before(rest, findAny(rest, {"?"})),
           query    |-> from(rest, findAny(rest, {"?"}) + 1),
           fragment |-> fragment] : rest \in {rest_} })

\* the fragment is what follows the first "#"
split_fragment(scheme, netloc, rest_) ==
    the({ split_query(scheme, netloc,
                      before(rest, findAny(rest, {"#"})),
                      from(rest, findAny(rest, {"#"}) + 1)) : rest \in {rest_} })

\* after "//" the netloc runs to the first of "/", "?", "#"
split_netloc_at(scheme, rest_) ==
    the({ split_fragment(scheme,
                         before(rest, findAny(rest, {"/", "?", "#"})),
                         from(rest, findAny(rest, {"/", "?", "#"}))) : rest \in {rest_} })

split_netloc(scheme_, rest_) ==
    the({ IF startswith(rest, <<"/", "/">>)
          THEN split_netloc_at(scheme, from(rest, 3))
          ELSE split_fragment(scheme, <<>>, rest) : scheme \in {scheme_}, rest \in {rest_} })

split_scheme(url_, se_) ==
    the({ split_netloc(lower(before(url, se)), from(url, se + 1)) : url \in {url_}, se \in {se_} })

urlparse(url_) == the({ split_scheme(url, schemeEnd(url)) : url \in {url_} })

urlunparse(scheme_, netloc_, path, query_, fragment_) ==
    the({ (IF scheme # <<>> THEN scheme \o <<":">> ELSE <<>>)
          \o (IF netloc # <<>> THEN <<"/", "/">> \o netloc ELSE <<>>)
          \o path
          \o (IF query # <<>> THEN <<"?">> \o query ELSE <<>>)
          \o (IF fragment # <<>> THEN <<"#">> \o fragment ELSE <<>>)
          : scheme \in {scheme_}, netloc \in {netloc_}, query \in {query_},
            fragment \in {fragment_} })

UsesRelative == {<<"h", "t", "t", "p">>, <<"h", "t", "t", "p", "s">>, <<>>}

\* the base path up to and including its last "/", then the relative path
merge_paths(b, u) ==
    IF rfind(b.path, "/") = 0 /\ b.netloc # <<>> THEN <<"/">> \o u.path
    ELSE SubSeq(b.path, 1, rfind(b.path, "/")) \o u.path

\* b and u are the parsed base and url, scheme is u's scheme or else b's
urljoin_parsed(base_, url_, b_, u_, scheme_) ==
    the({ IF url = <<>> THEN base
          ELSE IF base = <<>> THEN url
          ELSE IF scheme # b.scheme \/ scheme \notin UsesRelative THEN url
          ELSE IF u.netloc # <<>>
               THEN urlunparse(scheme, u.netloc, u.path, u.query, u.fragment)
          ELSE IF u.path = <<>>
               THEN urlunparse(scheme, b.netloc, b.path,
                               IF u.query # <<>> THEN u.query ELSE b.query, u.fragment)
          ELSE IF Head(u.path) = "/"
               THEN urlunparse(scheme, b.netloc, u.path, u.query, u.fragment)
          ELSE urlunparse(scheme, b.netloc, merge_paths(b, u), u.query, u.fragment)
          : base \in {base_}, url \in {url_}, b \in {b_}, u \in {u_}, scheme \in {scheme_} })

url_scheme(url_) == the({ lower(before(url, schemeEnd(url))) : url \in {url_} })

urljoin(base_, url_) ==
    the({ urljoin_parsed(base, url, urlparse(base), urlparse(url),
                         IF schemeEnd(url) # 0 THEN url_scheme(url) ELSE url_scheme(base))
          : base \in {base_}, url \in {url_} })

(***************************************************************************)
(* is_external_url                                                         *)
(***************************************************************************)
\* domains_differ without the test for an empty domain
domains_differ_or_empty(base_domain, url_domain_) ==
    \E url_domain \in {url_domain_} : base_domain # url_domain

\* base_domain != url_domain and url_domain != ''
domains_differ(base_domain, url_domain_) ==
    \E url_domain \in {url_domain_} : base_domain # url_domain /\ url_domain # <<>>

is_external_url(base_url, url) ==
    domains_differ(urlparse(base_url).netloc, urlparse(url).netloc)

(***************************************************************************)
(* get_page_links: `anchors` is the sequence of the href values of the     *)
(* a[href] elements of the link scope (main, else article, else body), in  *)
(* document order; it is empty when the page has no such scope.            *)
(***************************************************************************)
skip_patterns ==
    { <<"l", "o", "g", "i", "n">>, <<"l", "o", "g", "o", "u", "t">>,
      <<"s", "i", "g", "n", "u", "p">>, <<"r", "e", "g", "i", "s", "t", "e", "r">>,
      <<"c", "o", "n", "t", "a", "c", "t">>, <<"b", "r", "o", "w", "s", "e">>,
      <<"z", "i", "p">>, <<"d", "o", "w", "n", "l", "o", "a", "d">>,
      <<"p", "d", "f">>, <<"d", "o", "c">>, <<"x", "l", "s">>, <<"p", "p", "t">>,
      <<"d", "o", "c", "x">>, <<"x", "l", "s", "x">>, <<"p", "p", "t", "x">> }

\* matches_skip_pattern without .lower()
matches_skip_pattern_cased(full_url) ==
    \E pattern \in skip_patterns : contains(full_url, pattern)

\* any(pattern in full_url.lower() for pattern in skip_patterns)
matches_skip_pattern(full_url) ==
    \E lowered \in {lower(full_url)} : \E pattern \in skip_patterns : contains(lowered, pattern)

\* keep_link with the test of allow_external inverted
keep_link_inverted(href_, base_url, full_url_, allow_external) ==
    the({ IF startswith(href, <<"#">>)
             \/ startswith(href, <<"j", "a", "v", "a", "s", "c", "r", "i", "p", "t", ":">>)
          THEN <<>>
          ELSE IF allow_external /\ is_external_url(base_url, full_url) THEN <<>>
          ELSE IF matches_skip_pattern(full_url) THEN <<>>
          ELSE <<full_url>> : href \in {href_}, full_url \in {full_url_} })

\* one iteration of the loop of get_page_links after urljoin: the links the
\* anchor adds
keep_link(href_, base_url, full_url_, allow_external) ==
    the({ IF startswith(href, <<"#">>)
             \/ startswith(href, <<"j", "a", "v", "a", "s", "c", "r", "i", "p", "t", ":">>)
          THEN <<>>
          ELSE IF ~allow_external /\ is_external_url(base_url, full_url) THEN <<>>
          ELSE IF matches_skip_pattern(full_url) THEN <<>>
          ELSE <<full_url>> : href \in {href_}, full_url \in {full_url_} })

link_of(href_, base_url, allow_external) ==
    the({ keep_link(href, base_url, urljoin(base_url, href), allow_external) : href \in {href_} })

RECURSIVE get_page_links(_, _, _)
get_page_links(anchors_, base_url_, allow_external_) ==
    the({ IF anchors = <<>> THEN <<>>
          ELSE link_of(Head(anchors), base_url, allow_external)
               \o get_page_links(Tail(anchors), base_url, allow_external)
          : anchors \in {anchors_}, base_url \in {base_url_},
            allow_external \in {allow_external_} })

(***************************************************************************)
(* get_safe_filename                                                       *)
(***************************************************************************)
MaxBaseName == 100      \* len(base_name) > 100
KeptPrefix == 50        \* base_name[:50]
HashLen == 10           \* hexdigest()[:10]

InvalidChars == {"\\", "/", "*", "?", ":", "\"", "<", ">", "|"}

splitext_at(path_, sepIndex_, dotIndex_) ==
    the({ IF dotIndex > sepIndex
             /\ \E i \in (sepIndex + 1)..(dotIndex - 1) : path[i] # "."
          THEN SubSeq(path, 1, dotIndex - 1)
          ELSE path : path \in {path_}, sepIndex \in {sepIndex_}, dotIndex \in {dotIndex_} })

\* os.path.splitext(path)[0]
splitext_root(path_) ==
    the({ splitext_at(path, rfind(path, "/"), rfind(path, ".")) : path \in {path_} })

(* hashlib.md5(url.encode()).hexdigest()[:10].  MD5 is library code: it is   *)
(* modelled by a deterministic checksum of the characters, ten hexadecimal  *)
(* digits long.  Like MD5 it is a function of the whole URL and it is not   *)
(* injective.                                                               *)
HexDigits == <<"0", "1", "2", "3", "4", "5", "6", "7", "8", "9", "a", "b", "c", "d", "e", "f">>
CodeChars == LowerCase \o Digits \o <<":", "/", ".", "?", "=", "#", "_", "-", "&", "%">>

ord(c) ==
    IF \E k \in 1..Len(CodeChars) : CodeChars[k] = c
    THEN CHOOSE k \in 1..Len(CodeChars) : CodeChars[k] = c
    ELSE 0

RECURSIVE checksum(_, _, _)
checksum(s_, h_, mult) ==
    the({ IF s = <<>> THEN h
          ELSE checksum(Tail(s), (h * mult + ord(Head(s))) % 1048576, mult)
          : s \in {s_}, h \in {h_} })

hex5(n_) ==
    the({ << HexDigits[((n \div 65536) % 16) + 1], HexDigits[((n \div 4096) % 16) + 1],
             HexDigits[((n \div 256) % 16) + 1], HexDigits[((n \div 16) % 16) + 1],
             HexDigits[(n % 16) + 1] >> : n \in {n_} })

md5_hexdigest(url) == hex5(checksum(url, 7, 33)) \o hex5(checksum(url, 11, 131))

\* "If the filename becomes too long, hash part of it"
shorten(base_name_, url) ==
    the({ IF Len(base_name) > MaxBaseName
          THEN SubSeq(base_name, 1, KeptPrefix) \o <<"_">> \o SubSeq(md5_hexdigest(url), 1, HashLen)
          ELSE base_name : base_name \in {base_name_} })

\* "Replace invalid filename characters"
sanitize(base_name) == re_sub({".", " "}, <<"-">>, re_sub(InvalidChars, <<"_">>, base_name))

\* "Create a base name from domain and path"
join_name(netloc, path_) ==
    the({ IF path # <<>> THEN netloc \o <<"_">> \o path ELSE netloc : path \in {path_} })

\* "Extract path and remove extension if present"; path is already stripped
strip_extension(path_) ==
    the({ IF path # <<>> THEN splitext_root(path) ELSE <<>> : path \in {path_} })

\* the base name before it is shortened
base_name_of(parsed_url_) ==
    the({ sanitize(join_name(replace(parsed_url.netloc, <<"w", "w", "w", ".">>, <<>>),
                             strip_extension(strip(parsed_url.path, {"/"}))))
          : parsed_url \in {parsed_url_} })

get_safe_filename(url_) == the({ shorten(base_name_of(urlparse(url)), url) : url \in {url_} })

(***************************************************************************)
(* The inputs of a run.  A parsed page is the selected main content (a     *)
(* tree of nodes in document order, each with its tag, its text and the    *)
(* index of its parent, 0 for a child of the content root) and the hrefs   *)
(* of the anchors of its link scope.                                       *)
(***************************************************************************)
Node(tag, text, parent) == [tag |-> tag, text |-> text, parent |-> parent]

Intro == <<"I", "n", "t", "r", "o">>
References == <<"R", "e", "f", "e", "r", "e", "n", "c", "e", "s">>

\* <p>x</p>
PlainContent == << Node("p", <<>>, 0) >>
\* <h2>Intro</h2><p>x</p><h2>References</h2><p>y</p><h3>Intro</h3><p>z</p>
SectionedContent ==
    << Node("h2", Intro, 0), Node("p", <<>>, 0), Node("h2", References, 0), Node("p", <<>>, 0),
       Node("h3", Intro, 0), Node("p", <<>>, 0) >>

Contents == {PlainContent, SectionedContent}

SeedUrl == <<"h", "t", "t", "p", ":", "/", "/", "a", ".", "i", "o", "/">>

Hrefs ==
    { <<"/", "p", "?", "i", "=", "1">>,
      <<"h", "t", "t", "p", ":", "/", "/", "a", ".", "i", "o", "/", "p", "?", "i", "=", "2">>,
      <<"h", "t", "t", "p", ":", "/", "/", "b", ".", "i", "o", "/">> }

\* the elements of S that are not in the sequence t
fresh(t, S) == {x \in S : \A k \in DOMAIN t : t[k] # x}

\* T and its sequences extended by one more element of S
extend(T, S) == T \cup UNION {{Append(t, x) : x \in fresh(t, S)} : t \in T}

RECURSIVE SeqsUpTo(_, _)
\* the sequences over S of length at most n in which no element repeats
SeqsUpTo(S, n) == IF n <= 0 THEN {<<>>} ELSE extend(SeqsUpTo(S, n - 1), S)

\* the pages a fetch may return when n more anchors may be served: every
\* list of different links around a plain content, and every content
\* without links
Pages(n) ==
    [content : {PlainContent}, anchors : SeqsUpTo(Hrefs, n)]
    \cup [content : Contents, anchors : {<<>>}]

(***************************************************************************)
(* Section segmentation (crawl_to_markdown, the loop over the headings).   *)
(***************************************************************************)
HeadingTags == {"h2", "h3"}

\* main_content.find_all(["h2", "h3"]): the headings of the tree, in
\* document order, as node indices
RECURSIVE find_all_from(_, _)
find_all_from(content_, k_) ==
    the({ IF k > Len(content) THEN <<>>
          ELSE (IF content[k].tag \in HeadingTags THEN <<k>> ELSE <<>>)
               \o find_all_from(content, k + 1) : content \in {content_}, k \in {k_} })

find_all_headings(content) == find_all_from(content, 1)

\* the least element of a non-empty set of node indices, 0 for the empty set
first_of(later_) ==
    the({ IF later = {} THEN 0 ELSE CHOOSE j \in later : \A m \in later : j <= m
          : later \in {later_} })

\* tag.find_next_sibling(): the next node with the same parent, 0 if none
find_next_sibling(content_, k_) ==
    the({ first_of({j \in (k + 1)..Len(content) : content[j].parent = content[k].parent})
          : content \in {content_}, k \in {k_} })

RECURSIVE walk_siblings_until_h2(_, _)
\* walk_siblings that goes on over an h3
walk_siblings_until_h2(content_, tag_) ==
    the({ IF tag = 0 THEN <<>>
          ELSE IF content[tag].tag = "h2" THEN <<>>
          ELSE <<tag>> \o walk_siblings_until_h2(content, find_next_sibling(content, tag))
          : content \in {content_}, tag \in {tag_} })

\* the while loop that collects section_content; tag is the next sibling
RECURSIVE walk_siblings(_, _)
walk_siblings(content_, tag_) ==
    the({ IF tag = 0 THEN <<>>
          ELSE IF content[tag].tag \in HeadingTags THEN <<>>
          ELSE <<tag>> \o walk_siblings(content, find_next_sibling(content, tag))
          : content \in {content_}, tag \in {tag_} })

section_content(content_, section_) ==
    the({ walk_siblings(content, find_next_sibling(content, section))
          : content \in {content_}, section \in {section_} })

skip_sections ==
    { <<"R", "e", "f", "e", "r", "e", "n", "c", "e", "s">>, <<"S", "e", "e", " ", "a", "l", "s", "o">>, <<"E", "x", "t", "e", "r", "n", "a", "l", " ", "l", "i", "n", "k", "s">>, <<"N", "o", "t", "e", "s">>, <<"B", "i", "b", "l", "i", "o", "g", "r", "a", "p", "h", "y">>,
      <<"C", "o", "m", "m", "e", "n", "t", "s">>, <<"R", "e", "l", "a", "t", "e", "d">>, <<"S", "h", "a", "r", "e">>, <<"T", "a", "g", "s">> }

section_title_text(content, section) == strip(content[section].text, Whitespace)

\* title_skipped without the skip list
title_skipped_blank_only(title_) ==
    \E title \in {title_} : title = <<>>

\* the two `continue` tests of the loop
title_skipped(title_) ==
    \E title \in {title_} : title = <<>> \/ \E skip \in skip_sections : startswith(title, skip)

section_skipped(content, section) == title_skipped(section_title_text(content, section))

\* i is the index of the heading in enumerate(sections), from 0
name_or_ordinal(safe_, i) ==
    the({ IF safe = <<>> THEN <<"s", "e", "c", "t", "i", "o", "n", "_">> \o str(i) ELSE safe
          : safe \in {safe_} })

safe_section(content, section, i) ==
    name_or_ordinal(
        re_sub({".", " "}, <<"-">>,
               strip(re_sub(InvalidChars, <<>>, section_title_text(content, section)), Whitespace)),
        i)

section_filename(filename_base, content, section, i) ==
    filename_base \o <<"_">> \o safe_section(content, section, i) \o <<".", "m", "d">>

main_filename(filename_base) == filename_base \o <<".", "m", "d">>

\* the children of the content root: what the whole-page document converts
RECURSIVE tops_from(_, _)
tops_from(content_, k_) ==
    the({ IF k > Len(content) THEN <<>>
          ELSE (IF content[k].parent = 0 THEN <<k>> ELSE <<>>) \o tops_from(content, k + 1)
          : content \in {content_}, k \in {k_} })

top_nodes(content) == tops_from(content, 1)

(***************************************************************************)
(* The state of a run of crawl_to_markdown.                                *)
(***************************************************************************)
VARIABLES
    max_depth,          \* --depth
    allow_external,     \* --allow-external
    visited,            \* the set shared by all the invocations of a run
    stack,              \* the active invocations, the innermost first
    files,              \* the output directory: file name -> document
    trace,              \* what the run did so far, in order
    status              \* "ready", "running", "done" or "aborted"

vars == <<max_depth, allow_external, visited, stack, files, trace, status>>

NoPage == [content |-> <<>>, anchors |-> <<>>]

\* an invocation that has passed the visited test: its arguments and its
\* locals, filename_base set (line 129), the others not yet
Frame(url, current_depth) ==
    [url |-> url, current_depth |-> current_depth, pc |-> "fetch",
     filename_base |-> get_safe_filename(url),
     page |-> NoPage, sections |-> <<>>, i |-> 0, links |-> <<>>]

\* an entry of the trace
Event(op, url, depth, parent, name, sec, anchors, links) ==
    [op |-> op, url |-> url, depth |-> depth, parent |-> parent, name |-> name, sec |-> sec,
     anchors |-> anchors, links |-> links]

\* a written document: "Source: url", the heading (sec = 0: the page title,
\* sec = k: the k-th heading of find_all) and the converted nodes
Document(url, sec, body) == [url |-> url, sec |-> sec, body |-> body]

\* the number of anchors of the pages fetched so far
RECURSIVE anchors_in(_)
anchors_in(t) == IF t = <<>> THEN 0 ELSE Len(Head(t).anchors) + anchors_in(Tail(t))

anchors_served == anchors_in(trace)

top == Head(stack)

sections == top.sections

filename_base == top.filename_base

\* the heading of the current iteration of the loop over the sections
section == sections[top.i + 1]

\* the state when __main__ has parsed the arguments; --depth is not negative
Init ==
    /\ max_depth \in 0..MaxDepthBound
    /\ allow_external \in BOOLEAN
    /\ visited = {}
    /\ stack = <<>>
    /\ files = <<>>
    /\ trace = <<>>
    /\ status = "ready"

\* Invoke without visited.add(url)
InvokeForgets(url, current_depth, parent, rest) ==
    IF url \in visited
    THEN /\ stack' = rest
         /\ UNCHANGED <<visited, trace>>
    ELSE /\ visited' = visited
         /\ stack' = <<Frame(url, current_depth)>> \o rest
         /\ trace' = Append(trace, Event("call", url, current_depth, parent, <<>>, 0, <<>>, <<>>))

\* crawl_to_markdown(url, ..., current_depth, ...) up to the fetch: the
\* visited test, visited.add; `rest` is the stack the call returns to
Invoke(url, current_depth, parent, rest) ==
    IF url \in visited
    THEN /\ stack' = rest
         /\ UNCHANGED <<visited, trace>>
    ELSE /\ visited' = visited \cup {url}
         /\ stack' = <<Frame(url, current_depth)>> \o rest
         /\ trace' = Append(trace, Event("call", url, current_depth, parent, <<>>, 0, <<>>, <<>>))

\* the innermost invocation returns; the run is over when it was the seed's
ReturnTo(rest) ==
    /\ stack' = rest
    /\ status' = IF rest = <<>> THEN "done" ELSE status

\* Start with current_depth=1
StartAtDepthOne ==
    /\ status = "ready"
    /\ status' = "running"
    /\ Invoke(SeedUrl, 1, <<>>, <<>>)
    /\ UNCHANGED <<max_depth, allow_external, files>>

\* __main__: crawl_to_markdown(url=args.url, ...) with visited=None
Start ==
    /\ status = "ready"
    /\ status' = "running"
    /\ Invoke(SeedUrl, 0, <<>>, <<>>)
    /\ UNCHANGED <<max_depth, allow_external, files>>

\* FetchFails that takes the URL out of visited, to have it tried again
FetchFailsUnvisits ==
    /\ status = "running" /\ top.pc = "fetch"
    /\ trace' = Append(trace, Event("fetch_failed", top.url, top.current_depth, <<>>, <<>>, 0, <<>>, <<>>))
    /\ visited' = visited \ {top.url}
    /\ stack' = Tail(stack)
    /\ status' = IF Tail(stack) = <<>> THEN "done" ELSE status
    /\ UNCHANGED <<max_depth, allow_external, files>>

\* requests.get or raise_for_status raises RequestException: report, return
FetchFails ==
    /\ status = "running" /\ top.pc = "fetch"
    /\ trace' = Append(trace, Event("fetch_failed", top.url, top.current_depth, <<>>, <<>>, 0, <<>>, <<>>))
    /\ ReturnTo(Tail(stack))
    /\ UNCHANGED <<max_depth, allow_external, visited, files>>

\* NoContent that takes the URL out of visited
NoContentUnvisits ==
    /\ status = "running" /\ top.pc = "fetch"
    /\ trace' = Append(trace, Event("fetch_no_content", top.url, top.current_depth, <<>>, <<>>, 0, <<>>, <<>>))
    /\ visited' = visited \ {top.url}
    /\ stack' = Tail(stack)
    /\ status' = IF Tail(stack) = <<>> THEN "done" ELSE status
    /\ UNCHANGED <<max_depth, allow_external, files>>

\* NoContent that ends the run instead of the branch
NoContentEndsRun ==
    /\ status = "running" /\ top.pc = "fetch"
    /\ trace' = Append(trace, Event("fetch_no_content", top.url, top.current_depth, <<>>, <<>>, 0, <<>>, <<>>))
    /\ stack' = <<>>
    /\ status' = "done"
    /\ UNCHANGED <<max_depth, allow_external, visited, files>>

\* the response has none of the content containers: report, return
NoContent ==
    /\ status = "running" /\ top.pc = "fetch"
    /\ trace' = Append(trace, Event("fetch_no_content", top.url, top.current_depth, <<>>, <<>>, 0, <<>>, <<>>))
    /\ ReturnTo(Tail(stack))
    /\ UNCHANGED <<max_depth, allow_external, visited, files>>

\* the response parses to a page with a main content
FetchPage ==
    /\ status = "running" /\ top.pc = "fetch"
    /\ \E page \in Pages(MaxAnchors - anchors_served) :
          /\ stack' = <<[top EXCEPT !.pc = "main", !.page = page]>> \o Tail(stack)
          /\ trace' = Append(trace, Event("fetch", top.url, top.current_depth, <<>>, <<>>, 0,
                                          page.anchors, <<>>))
    /\ UNCHANGED <<max_depth, allow_external, visited, files, status>>

\* open(path, "w") and write: the file holds the new document
WriteFile(name, doc) ==
    /\ files' = [n \in (DOMAIN files) \cup {name} |-> IF n = name THEN doc ELSE files[n]]
    /\ trace' = Append(trace, Event("write", doc.url, top.current_depth, <<>>, name, doc.sec, <<>>, <<>>))

\* "Save main content", then sections = main_content.find_all(["h2", "h3"])
SaveMain ==
    /\ status = "running" /\ top.pc = "main"
    /\ WriteFile(main_filename(filename_base),
                 Document(top.url, 0, top_nodes(top.page.content)))
    /\ stack' = <<[top EXCEPT !.pc = "sections", !.i = 0,
                               !.sections = find_all_headings(top.page.content)]>>
                 \o Tail(stack)
    /\ UNCHANGED <<max_depth, allow_external, visited, status>>

\* one iteration of the loop over the headings that ends in `continue` or
\* finds no section content
SkipSection ==
    /\ status = "running" /\ top.pc = "sections" /\ top.i < Len(sections)
    /\ \/ section_skipped(top.page.content, section)
       \/ section_content(top.page.content, section) = <<>>
    /\ stack' = <<[top EXCEPT !.i = top.i + 1]>> \o Tail(stack)
    /\ UNCHANGED <<max_depth, allow_external, visited, files, trace, status>>

\* one iteration of the loop over the headings that writes the section
SaveSection ==
    /\ status = "running" /\ top.pc = "sections" /\ top.i < Len(sections)
    /\ ~section_skipped(top.page.content, section)
    /\ section_content(top.page.content, section) # <<>>
    /\ WriteFile(section_filename(filename_base, top.page.content, section, top.i),
                 Document(top.url, top.i + 1, section_content(top.page.content, section)))
    /\ stack' = <<[top EXCEPT !.i = top.i + 1]>> \o Tail(stack)
    /\ UNCHANGED <<max_depth, allow_external, visited, status>>

\* FollowLinks that has the loop go over the links from the last to the first
FollowLinksReversed(links) ==
    /\ stack' = <<[top EXCEPT !.pc = "links",
                              !.links = [k \in 1..Len(links) |-> links[Len(links) + 1 - k]]]>>
                 \o Tail(stack)
    /\ trace' = Append(trace, Event("links", top.url, top.current_depth, <<>>, <<>>, 0, <<>>, links))
    /\ UNCHANGED status

\* links = get_page_links(soup, url, allow_external), before the loop over them
FollowLinks(links) ==
    /\ stack' = <<[top EXCEPT !.pc = "links", !.links = links]>> \o Tail(stack)
    /\ trace' = Append(trace, Event("links", top.url, top.current_depth, <<>>, <<>>, 0, <<>>, links))
    /\ UNCHANGED status

\* CompletedPage with current_depth <= max_depth
CompletedPageOffByOne ==
    /\ status = "running" /\ top.pc = "sections" /\ top.i = Len(sections)
    /\ IF top.current_depth <= max_depth
       THEN FollowLinks(get_page_links(top.page.anchors, top.url, allow_external))
       ELSE /\ stack' = Tail(stack)
            /\ status' = IF Tail(stack) = <<>> THEN "done" ELSE status
            /\ UNCHANGED trace
    /\ UNCHANGED <<max_depth, allow_external, visited, files>>

\* "Completed page": below max_depth the links are extracted, else return
CompletedPage ==
    /\ status = "running" /\ top.pc = "sections" /\ top.i = Len(sections)
    /\ IF top.current_depth < max_depth
       THEN FollowLinks(get_page_links(top.page.anchors, top.url, allow_external))
       ELSE ReturnTo(Tail(stack)) /\ UNCHANGED trace
    /\ UNCHANGED <<max_depth, allow_external, visited, files>>

\* for link in links: the link is in visited
SkipLink ==
    /\ status = "running" /\ top.pc = "links" /\ top.links # <<>>
    /\ Head(top.links) \in visited
    /\ stack' = <<[top EXCEPT !.links = Tail(top.links)]>> \o Tail(stack)
    /\ UNCHANGED <<max_depth, allow_external, visited, files, trace, status>>

\* Recurse that passes current_depth on unchanged
RecurseSameDepth ==
    /\ status = "running" /\ top.pc = "links" /\ top.links # <<>>
    /\ Head(top.links) \notin visited
    /\ visited' = visited \cup {Head(top.links)}
    /\ stack' = <<Frame(Head(top.links), top.current_depth),
                  [top EXCEPT !.links = Tail(top.links)]>> \o Tail(stack)
    /\ trace' = Append(trace, Event("call", Head(top.links), top.current_depth, top.url, <<>>, 0, <<>>, <<>>))
    /\ UNCHANGED <<max_depth, allow_external, files, status>>

\* for link in links: the link is not in visited, the recursive call
Recurse ==
    /\ status = "running" /\ top.pc = "links" /\ top.links # <<>>
    /\ Head(top.links) \notin visited
    /\ Invoke(Head(top.links), top.current_depth + 1, top.url,
              <<[top EXCEPT !.links = Tail(top.links)]>> \o Tail(stack))
    /\ UNCHANGED <<max_depth, allow_external, files, status>>

\* the loop over the links is over: the invocation returns
Return ==
    /\ status = "running" /\ top.pc = "links" /\ top.links = <<>>
    /\ ReturnTo(Tail(stack))
    /\ UNCHANGED <<max_depth, allow_external, visited, files, trace>>

Next ==
    \/ Start
    \/ FetchFails
    \/ NoContent
    \/ FetchPage
    \/ SaveMain
    \/ SkipSection
    \/ SaveSection
    \/ CompletedPage
    \/ SkipLink
    \/ Recurse
    \/ Return

Spec == Init /\ [][Next]_vars

(***************************************************************************)
(* The document writer fails: open() or write() raises OSError, which no   *)
(* invocation catches (the only try statement is the one around the        *)
(* fetch), so every active invocation is unwound and the process ends      *)
(* with the traceback.                                                     *)
(***************************************************************************)
Unwind(name, sec) ==
    /\ trace' = Append(trace, Event("write_failed", top.url, top.current_depth, <<>>, name, sec, <<>>, <<>>))
    /\ stack' = <<>>
    /\ status' = "aborted"
    /\ UNCHANGED <<max_depth, allow_external, visited, files>>

SaveMainFails ==
    /\ status = "running" /\ top.pc = "main"
    /\ Unwind(main_filename(filename_base), 0)

SaveSectionFails ==
    /\ status = "running" /\ top.pc = "sections" /\ top.i < Len(sections)
    /\ ~section_skipped(top.page.content, section)
    /\ section_content(top.page.content, section) # <<>>
    /\ Unwind(section_filename(filename_base, top.page.content, section, top.i), top.i + 1)

NextW ==
    \/ Next
    \/ SaveMainFails
    \/ SaveSectionFails

\* the run with a document writer that may fail
SpecW == Init /\ [][NextW]_vars

\* the run is one sequential process: it takes its next step as long as it has one
FairSpec == Spec /\ WF_vars(Next)

(***************************************************************************)
(* Reading the trace.                                                      *)
(***************************************************************************)
FetchOps == {"fetch", "fetch_failed", "fetch_no_content"}
FailureOps == {"fetch_failed", "fetch_no_content"}

\* the positions of the trace whose operation is in ops
At(ops) == {k \in DOMAIN trace : trace[k].op \in ops}

Range(s) == {s[k] : k \in DOMAIN s}

\* the pages whose links were followed: the positions of the "links" entries
Followed == At({"links"})

\* every link of every page whose links were followed has been crawled
LinksCrawled == \A k \in Followed : Range(trace[k].links) \subseteq visited

\* C1: in one run no URL is fetched more than once: the fetch attempts
\* (successful or not) are for pairwise different URLs.
C1_NoUrlFetchedTwice ==
    Cardinality({trace[k].url : k \in At(FetchOps)}) = Cardinality(At(FetchOps))

\* a finished run in which two followed pages link to the same URL
C1_Witness ==
    /\ status = "done"
    /\ \E k \in Followed : \E m \in Followed :
          k # m /\ Range(trace[k].links) \cap Range(trace[m].links) # {}

\* every URL of visited was entered by exactly one invocation, and every
\* invocation's URL is in visited
VisitedOnce ==
    /\ {trace[k].url : k \in At({"call"})} = visited
    /\ Cardinality(At({"call"})) = Cardinality(visited)

\* C2: for every link graph, cycles included, the run terminates, and at
\* termination each reached URL is in visited exactly once.
C2_Terminates == <>(status = "done" /\ VisitedOnce)

\* a finished run with max_depth = 3 over a cycle: two pages, both followed,
\* that link to each other
C2_Witness ==
    /\ status = "done" /\ max_depth = MaxDepthBound
    /\ \E k \in Followed : \E m \in Followed :
          /\ trace[k].url # trace[m].url
          /\ trace[m].url \in Range(trace[k].links)
          /\ trace[k].url \in Range(trace[m].links)

\* C3: with max_depth = 0 the run fetches the seed and nothing else, and
\* visited ends as {seed}, whatever links the seed page has.
C3_DepthZeroFetchesSeedOnly ==
    max_depth = 0 =>
        /\ visited \subseteq {SeedUrl}
        /\ Cardinality(At(FetchOps)) <= 1
        /\ status = "done" =>
              /\ visited = {SeedUrl}
              /\ {trace[k].url : k \in At(FetchOps)} = {SeedUrl}

\* a finished run with max_depth = 0 whose seed page had two usable links
C3_Witness ==
    /\ status = "done" /\ max_depth = 0
    /\ \E k \in At({"fetch"}) :
          Len(get_page_links(trace[k].anchors, trace[k].url, allow_external)) >= 2

\* C4: a fetch failure or a missing content ends only the branch of that
\* page: the page writes no document and none of its links is followed, the
\* run ends normally and every link of every followed page is crawled.
C4_FailureEndsOnlyItsBranch ==
    /\ status # "aborted"
    /\ {trace[k].url : k \in At(FailureOps)}
          \cap {trace[k].url : k \in At({"write"})} = {}
    /\ {trace[k].url : k \in At(FailureOps)}
          \cap {trace[k].parent : k \in At({"call"})} = {}
    /\ status = "done" => LinksCrawled

\* a finished run in which, after a page failed, its parent went on to
\* crawl a later link
C4_Witness ==
    /\ status = "done"
    /\ \E f \in At(FailureOps) : \E c \in At({"call"}) : \E d \in At({"call"}) :
          /\ trace[c].url = trace[f].url
          /\ f < d
          /\ trace[d].parent = trace[c].parent

\* C5: every failure while a page is processed, a failure of the document
\* writer included, stays within that page's invocation: the run is not
\* aborted and the links of the followed pages are still crawled.
C5_WriterFailureContained ==
    /\ status # "aborted"
    /\ status = "done" => LinksCrawled

\* the seed's netloc, or none
SameSite(url) ==
    urlparse(url).netloc \in {<<>>, urlparse(SeedUrl).netloc}

\* C6: with allow_external false no URL with a non-empty netloc other than
\* the seed's is fetched or put into visited.
C6_NoExternalUrl ==
    ~allow_external =>
        /\ \A url \in visited : SameSite(url)
        /\ \A k \in At(FetchOps) : SameSite(trace[k].url)

\* a finished run without allow_external in which a page one hop or more
\* from the seed, whose links were followed, held an external link
C6_Witness ==
    /\ status = "done" /\ ~allow_external
    /\ \E k \in Followed : \E m \in At({"fetch"}) :
          /\ trace[k].depth >= 1
          /\ trace[m].url = trace[k].url
          /\ \E a \in Range(trace[m].anchors) :
                is_external_url(trace[m].url, urljoin(trace[m].url, a))

\* the links of the page of url, none when it was not fetched with a content
LinksFrom(url) ==
    UNION {Range(get_page_links(trace[k].anchors, url, allow_external)) :
              k \in {m \in At({"fetch"}) : trace[m].url = url}}

\* the URLs at link distance at most n from the seed
RECURSIVE Within(_)
Within(n) ==
    IF n = 0 THEN {SeedUrl}
    ELSE Within(n - 1) \cup UNION {LinksFrom(url) : url \in Within(n - 1)}

\* C7: when every fetch succeeds and every page has content, visited ends
\* with every URL at link distance at most max_depth from the seed.
C7_CoversBoundedDepth ==
    (status = "done" /\ At(FailureOps) = {}) => Within(max_depth) \subseteq visited

\* C8 as stated: no more than max_depth invocations are active at once.
C8_StackWithinMaxDepth == Len(stack) <= max_depth

\* C8 as amended: no more than max_depth + 1 invocations are active at once
\* (the seed's at depth 0 and one per depth up to max_depth).
C8_StackWithinMaxDepthPlusOne == Len(stack) <= max_depth + 1

\* the bound is reached: max_depth + 1 nested invocations, max_depth >= 2
C8_Witness == Len(stack) = max_depth + 1 /\ max_depth >= 2

\* the whole-page writes of the trace
PageWrites == {k \in At({"write"}) : trace[k].sec = 0}

\* the base names from which the two names were shortened are both over the
\* limit and agree on the kept prefix and on the hash
LongNamesCoincide(u, v) ==
    /\ Len(base_name_of(urlparse(u))) > MaxBaseName
    /\ Len(base_name_of(urlparse(v))) > MaxBaseName
    /\ SubSeq(base_name_of(urlparse(u)), 1, KeptPrefix)
          = SubSeq(base_name_of(urlparse(v)), 1, KeptPrefix)
    /\ SubSeq(md5_hexdigest(u), 1, HashLen) = SubSeq(md5_hexdigest(v), 1, HashLen)

\* C9: two different URLs fetched in one run get the same whole-page file
\* name only when both base names are over 100 characters and agree on the
\* first 50 characters and on the hash; otherwise every whole-page document
\* is in its own file when the run ends.
C9_PageNamesCollisionSafe ==
    /\ \A k \in PageWrites : \A m \in PageWrites :
          (trace[k].url # trace[m].url /\ trace[k].name = trace[m].name)
             => LongNamesCoincide(trace[k].url, trace[m].url)
    /\ status = "done" =>
          \A k \in PageWrites :
             (\A m \in PageWrites : trace[m].url # trace[k].url
                                     => ~LongNamesCoincide(trace[k].url, trace[m].url))
                => files[trace[k].name] = Document(trace[k].url, 0, files[trace[k].name].body)

\* the pages whose documents are all written: no invocation is writing them
Processed(url) ==
    \A k \in DOMAIN stack : stack[k].url = url => stack[k].pc \notin {"main", "sections"}

\* C10: once a page is processed, every section it wrote is in a file of its
\* own: the file written for the section still holds that section.
C10_OneFilePerSection ==
    \A k \in At({"write"}) :
        (trace[k].sec > 0 /\ Processed(trace[k].url))
           => /\ files[trace[k].name].url = trace[k].url
              /\ files[trace[k].name].sec = trace[k].sec

(***************************************************************************)
(* The crawl of one page at depth 0 over content trees: the nodes are in   *)
(* document order, a node's parent is a div that is still open when the    *)
(* node is met.                                                            *)
(***************************************************************************)
MaxNodes == 4           \* a content tree has at most MaxNodes nodes

HeadingTexts == {<<" ">>, Intro, References}

\* the nodes a node of a content tree may be
NodesUnder(parent) ==
    {Node(tag, text, parent) : tag \in HeadingTags, text \in HeadingTexts}
    \cup {Node("p", <<>>, parent), Node("div", <<>>, parent)}

RECURSIVE ancestors_or_self(_, _)
\* the node k of the tree t and the nodes that contain it
ancestors_or_self(t, k) == IF k = 0 THEN {} ELSE {k} \cup ancestors_or_self(t, t[k].parent)

\* the content root (0) and the divs that are open after the last node of t
open_containers(t) ==
    {0} \cup {k \in ancestors_or_self(t, Len(t)) : t[k].tag = "div"}

RECURSIVE ParsedAs(_, _)
\* the parse yields the tree t, or t grown by up to n more nodes
ParsedAs(t, n) ==
    \/ stack' = <<[top EXCEPT !.pc = "main",
                              !.page = [content |-> t, anchors |-> <<>>]]>> \o Tail(stack)
    \/ /\ n > 0
       /\ \E parent \in open_containers(t) : \E node \in NodesUnder(parent) :
             ParsedAs(Append(t, node), n - 1)

\* the response parses to a page whose main content is any tree, without links
FetchTree ==
    /\ status = "running" /\ top.pc = "fetch"
    /\ ParsedAs(<<>>, MaxNodes)
    /\ trace' = Append(trace, Event("fetch", top.url, top.current_depth, <<>>, <<>>, 0, <<>>, <<>>))
    /\ UNCHANGED <<max_depth, allow_external, visited, files, status>>

InitSeg == Init /\ max_depth = 0 /\ ~allow_external

NextSeg ==
    \/ Start
    \/ FetchTree
    \/ SaveMain
    \/ SkipSection
    \/ SaveSection
    \/ CompletedPage

\* the run over one page, whatever its content tree
SpecSeg == InitSeg /\ [][NextSeg]_vars

(***************************************************************************)
(* Reading the sections of the page being processed.                       *)
(***************************************************************************)
\* the invocation on top is in or just after its loop over the headings
InSections == status = "running" /\ top.pc = "sections"

\* the writes of the section document of the h-th heading of find_all
SectionWrites(h) == {k \in At({"write"}) : trace[k].sec = h}

\* the headings, by position in find_all, whose section document was written
Written == {h \in 1..Len(sections) : SectionWrites(h) # {}}

\* the node k of the tree t and the nodes it contains
Contained(t, k) == {j \in DOMAIN t : k \in ancestors_or_self(t, j)}

\* the nodes that the section document of the h-th heading renders
Covered(h) ==
    UNION {Contained(top.page.content, b) :
              b \in Range(section_content(top.page.content, sections[h]))}

\* C11: the sections of one page never overlap: no node is rendered, as a
\* body node or inside one, by the documents of two different sections.
C11_SectionsNeverOverlap ==
    InSections => \A g \in Written : \A h \in Written : g # h => Covered(g) \cap Covered(h) = {}

HeadingLevel(tag) == IF tag = "h2" THEN 2 ELSE 3

\* the siblings that follow the node k in the tree t
SiblingsAfter(t, k) == {j \in (k + 1)..Len(t) : t[j].parent = t[k].parent}

\* the following sibling headings of the same or a higher level than k's
Closing(t, k) ==
    {j \in SiblingsAfter(t, k) :
        t[j].tag \in HeadingTags /\ HeadingLevel(t[j].tag) <= HeadingLevel(t[k].tag)}

\* the siblings between the heading k and the next heading of the same or a
\* higher level
BodyBetween(t, k) == {j \in SiblingsAfter(t, k) : \A c \in Closing(t, k) : j < c}

\* the sequence s lists the set S in increasing order
ListsInOrder(s, S) ==
    /\ Range(s) = S
    /\ \A a \in DOMAIN s : \A b \in DOMAIN s : a < b => s[a] < s[b]

\* the section documents in the output directory
SectionDocs == {files[n] : n \in {m \in DOMAIN files : files[m].sec > 0}}

\* C12: the body of every section is the ordered sequence of the siblings
\* between its heading and the next heading of the same or a higher level.
C12_BodyEndsAtSameOrHigherLevel ==
    InSections =>
        \A d \in SectionDocs :
            ListsInOrder(d.body, BodyBetween(top.page.content, sections[d.sec]))

\* the siblings between the heading k and the next h2 or h3 among them
BodyUntilHeading(t, k) ==
    {j \in SiblingsAfter(t, k) :
        \A c \in SiblingsAfter(t, k) : t[c].tag \in HeadingTags => j < c}

\* C12, amended: the body of every section is the ordered sequence of the
\* siblings between its heading and the next h2 or h3 sibling, whatever the
\* levels of the two headings.
C12_BodyEndsAtNextHeading ==
    InSections =>
        \A d \in SectionDocs :
            ListsInOrder(d.body, BodyUntilHeading(top.page.content, sections[d.sec]))

\* <h2>Intro</h2><p>x</p><h3>References</h3><p>y</p> is processed: the body
\* of the h2 section is the first paragraph alone
C12_Witness ==
    /\ InSections /\ top.i = Len(sections)
    /\ top.page.content = << Node("h2", Intro, 0), Node("p", <<>>, 0),
                             Node("h3", References, 0), Node("p", <<>>, 0) >>
    /\ \E d \in SectionDocs : d.sec = 1 /\ d.body = <<2>>

\* the characters of the text that are not white space
Inked(text) == {i \in DOMAIN text : text[i] \notin Whitespace}

\* the text reads `word` from the position i on
ReadsAt(text, i, word) ==
    /\ i + Len(word) - 1 <= Len(text)
    /\ \A m \in DOMAIN word : text[i + m - 1] = word[m]

\* the trimmed text starts with an entry of the skip list
SkipListed(text) ==
    \E i \in Inked(text) :
        /\ \A j \in Inked(text) : i <= j
        /\ \E word \in skip_sections : ReadsAt(text, i, word)

\* the element after the heading k, among its siblings, is not a heading
BodyFollows(t, k) ==
    \E j \in SiblingsAfter(t, k) :
        /\ \A m \in SiblingsAfter(t, k) : j <= m
        /\ t[j].tag \notin HeadingTags

\* the heading k of the tree t is to produce a section document
Retained(t, k) ==
    /\ Inked(t[k].text) # {}
    /\ ~SkipListed(t[k].text)
    /\ BodyFollows(t, k)

\* C13: the loop goes over all the h2/h3 of the content; a heading with a
\* blank text, a skip-listed text or no body produces no section document,
\* every other heading exactly one write.
C13_OneWritePerRetainedHeading ==
    InSections =>
        /\ Range(sections) = {k \in DOMAIN top.page.content : top.page.content[k].tag \in HeadingTags}
        /\ \A h \in 1..top.i :
              Cardinality(SectionWrites(h))
                 = IF Retained(top.page.content, sections[h]) THEN 1 ELSE 0
        /\ \A h \in (top.i + 1)..Len(sections) : SectionWrites(h) = {}

\* <h2>Intro</h2><p>x</p><h2>References</h2><p>y</p> is processed: one
\* section document, for Intro
C13_Witness ==
    /\ InSections /\ top.i = Len(sections)
    /\ top.page.content = << Node("h2", Intro, 0), Node("p", <<>>, 0),
                             Node("h2", References, 0), Node("p", <<>>, 0) >>
    /\ Written = {1}
    /\ \E k \in SectionWrites(1) : trace[k].name = <<"a", "-", "i", "o", "_", "I", "n", "t", "r", "o", ".", "m", "d">>

(***************************************************************************)
(* is_external_url on its own: one call on any two URLs of UrlSamples.     *)
(* The stack holds the call, with its arguments and then its result.       *)
(***************************************************************************)
UrlSamples ==
    { <<"h", "t", "t", "p", ":", "/", "/", "a", ".", "i", "o", "/">>, <<"h", "t", "t", "p", "s", ":", "/", "/", "a", ".", "i", "o", "/">>, <<"h", "t", "t", "p", ":", "/", "/", "a", ".", "i", "o", "/", "p", "?", "q", "=", "1", "#", "f">>, <<"h", "t", "t", "p", ":", "/", "/", "A", ".", "i", "o", "/">>,
      <<"h", "t", "t", "p", ":", "/", "/", "a", ".", "i", "o", ":", "8", "0", "/">>, <<"h", "t", "t", "p", ":", "/", "/", "b", ".", "i", "o", "/">>, <<"/", "/", "a", ".", "i", "o", "/", "p">>, <<"/", "p">>, <<"p", "?", "u", "=", "h", "t", "t", "p", ":", "/", "/", "b", ".", "i", "o", "/">>,
      <<"m", "a", "i", "l", "t", "o", ":", "x">>, <<>> }

Call(fn, args) == [fn |-> fn, args |-> args, pc |-> "call"]

Returned(call, result) == [call EXCEPT !.pc = "returned", !.args = Append(call.args, result)]

InitExt ==
    /\ max_depth = 0 /\ allow_external = FALSE /\ visited = {} /\ files = <<>>
    /\ trace = <<>> /\ status = "running"
    /\ \E base_url \in UrlSamples : \E url \in UrlSamples :
          stack = <<Call("is_external_url", <<base_url, url>>)>>

IsExternalUrl ==
    /\ top.pc = "call" /\ top.fn = "is_external_url"
    /\ stack' = <<Returned(top, is_external_url(top.args[1], top.args[2]))>>
    /\ UNCHANGED <<max_depth, allow_external, visited, files, trace, status>>

NextExt == IsExternalUrl

SpecExt == InitExt /\ [][NextExt]_vars

\* the call on top has returned; its arguments are followed by its result
HasReturned == top.pc = "returned"

\* the positions of a ":" that ends a scheme: only letters before it
SchemeColon(url) ==
    {i \in DOMAIN url : url[i] = ":" /\ i > 1 /\ \A j \in 1..(i - 1) : url[j] \in SchemeChars}

SchemeOf(url) ==
    IF SchemeColon(url) = {} THEN <<>>
    ELSE lower(SubSeq(url, 1, (CHOOSE i \in SchemeColon(url) : TRUE) - 1))

\* where the URL goes on after its scheme
AfterScheme(url) ==
    IF SchemeColon(url) = {} THEN 1 ELSE (CHOOSE i \in SchemeColon(url) : TRUE) + 1

\* the URL has "//" after its scheme
HasAuthority(url) ==
    /\ AfterScheme(url) + 1 <= Len(url)
    /\ url[AfterScheme(url)] = "/" /\ url[AfterScheme(url) + 1] = "/"

\* the positions after the "//" up to which no "/", "?" or "#" is met
AuthorityPositions(url) ==
    {i \in (AfterScheme(url) + 2)..Len(url) :
        \A j \in (AfterScheme(url) + 2)..i : url[j] \notin {"/", "?", "#"}}

\* host[:port] as written: what follows "//" up to the next "/", "?" or "#"
AuthorityOf(url) ==
    IF HasAuthority(url)
    THEN SubSeq(url, AfterScheme(url) + 2, AfterScheme(url) + 1 + Cardinality(AuthorityPositions(url)))
    ELSE <<>>

\* C14: is_external_url is true if and only if scheme and authority of the
\* two URLs, taken together, differ and the candidate's authority is not
\* empty.
C14_ExternalIffSchemeOrAuthorityDiffers ==
    HasReturned =>
        (top.args[3] <=>
            /\ <<SchemeOf(top.args[1]), AuthorityOf(top.args[1])>>
                  # <<SchemeOf(top.args[2]), AuthorityOf(top.args[2])>>
            /\ AuthorityOf(top.args[2]) # <<>>)

\* C14, amended: is_external_url is true if and only if the authority of the
\* two URLs, as written and without the scheme, differs and the candidate's
\* authority is not empty; in particular a candidate without authority is
\* never external, and URLs that differ only in scheme or only in path are
\* not external.
C14_ExternalIffAuthorityDiffers ==
    HasReturned =>
        (top.args[3] <=>
            /\ AuthorityOf(top.args[1]) # AuthorityOf(top.args[2])
            /\ AuthorityOf(top.args[2]) # <<>>)

\* https://a.io/ has been compared with http://a.io/: not external
C14_Witness ==
    /\ HasReturned
    /\ top.args[1] = <<"h", "t", "t", "p", ":", "/", "/", "a", ".", "i", "o", "/">> /\ top.args[2] = <<"h", "t", "t", "p", "s", ":", "/", "/", "a", ".", "i", "o", "/">>
    /\ top.args[3] = FALSE

(***************************************************************************)
(* get_page_links in a run: the seed's page has any list of at most        *)
(* MaxHrefs anchors over RichHrefs, repeated ones included, and the pages  *)
(* it links to are fetched at depth 1 = max_depth.                         *)
(***************************************************************************)
MaxHrefs == 3           \* the seed's page has at most MaxHrefs anchors

RichHrefs ==
    { <<"/", "a">>, <<"b">>, <<"/", "F", "i", "l", "e", ".", "P", "D", "F">>, <<"#", "t", "o", "p">>, <<"j", "a", "v", "a", "s", "c", "r", "i", "p", "t", ":", "v", "(", ")">>, <<"h", "t", "t", "p", ":", "/", "/", "b", ".", "i", "o", "/">>, <<"h", "t", "t", "p", ":", "/", "/", "b", ".", "i", "o", "/", "l", "o", "g", "i", "n">> }

RECURSIVE LinkedAs(_, _)
\* the parse yields a plain page with the anchors, or with up to n more
LinkedAs(anchors, n) ==
    \/ /\ stack' = <<[top EXCEPT !.pc = "main",
                                 !.page = [content |-> PlainContent, anchors |-> anchors]]>>
                   \o Tail(stack)
       /\ trace' = Append(trace, Event("fetch", top.url, top.current_depth, <<>>, <<>>, 0,
                                       anchors, <<>>))
    \/ /\ n > 0
       /\ \E href \in RichHrefs : LinkedAs(Append(anchors, href), n - 1)

\* the response parses to a page with a main content; the pages below the
\* seed have no anchors
FetchLinked ==
    /\ status = "running" /\ top.pc = "fetch"
    /\ LinkedAs(<<>>, IF top.current_depth = 0 THEN MaxHrefs ELSE 0)
    /\ UNCHANGED <<max_depth, allow_external, visited, files, status>>

InitLinks == Init /\ max_depth = 1

NextLinks ==
    \/ Start
    \/ FetchLinked
    \/ SaveMain
    \/ CompletedPage
    \/ SkipLink
    \/ Recurse
    \/ Return

SpecLinks == InitLinks /\ [][NextLinks]_vars

\* the href is an in-page anchor or a script
FragmentOrScript(href) == ReadsAt(href, 1, <<"#">>) \/ ReadsAt(href, 1, <<"j", "a", "v", "a", "s", "c", "r", "i", "p", "t", ":">>)

\* the lowercase form of the URL contains an entry of the blocklist
Blocklisted(url_) ==
    \E url \in {lower(url_)} :
        \E pattern \in skip_patterns : \E i \in DOMAIN url : ReadsAt(url, i, pattern)

\* the absolute forms of the anchors of a page at base
Resolved(anchors, base) == [k \in DOMAIN anchors |-> urljoin(base, anchors[k])]

\* the positions of the anchors of a page at base that are to be returned;
\* full is Resolved(anchors, base)
Kept(anchors, base, full) ==
    {k \in DOMAIN anchors :
        /\ ~FragmentOrScript(anchors[k])
        /\ allow_external \/ ~is_external_url(base, full[k])
        /\ ~Blocklisted(full[k])}

\* links is the list of the absolute forms of the kept anchors, in the
\* order of the anchors, one entry per kept anchor
ListsKept(links, anchors, base) ==
    \E full \in {Resolved(anchors, base)} : \E kept \in {Kept(anchors, base, full)} :
        /\ Len(links) = Cardinality(kept)
        /\ \A k \in kept : links[Cardinality({m \in kept : m <= k})] = full[k]

\* C15: get_page_links returns no URL whose lowercase form contains a
\* blocklisted substring, whatever allow_external is, so no such URL other
\* than the seed is fetched; every other anchor that passes the
\* fragment/script and external tests is returned, in document order,
\* duplicates kept.
C15_LinksFilteredInOrder ==
    /\ \A k \in At({"links"}) : \A f \in At({"fetch"}) :
          trace[f].url = trace[k].url =>
              /\ \A j \in DOMAIN trace[k].links : ~Blocklisted(trace[k].links[j])
              /\ ListsKept(trace[k].links, trace[f].anchors, trace[k].url)
    /\ \A f \in At({"fetch"}) : trace[f].url # SeedUrl => ~Blocklisted(trace[f].url)

\* the seed's anchors were /a, http://b.io/login, /a with external
\* links allowed: the links are http://a.io/a twice, fetched once
C15_Witness ==
    /\ status = "done" /\ allow_external
    /\ \E f \in At({"fetch"}) : trace[f].anchors = << <<"/", "a">>, <<"h", "t", "t", "p", ":", "/", "/", "b", ".", "i", "o", "/", "l", "o", "g", "i", "n">>, <<"/", "a">> >>
    /\ \E k \in At({"links"}) : trace[k].links = << <<"h", "t", "t", "p", ":", "/", "/", "a", ".", "i", "o", "/", "a">>, <<"h", "t", "t", "p", ":", "/", "/", "a", ".", "i", "o", "/", "a">> >>
    /\ Cardinality({f \in At({"fetch"}) : trace[f].url = <<"h", "t", "t", "p", ":", "/", "/", "a", ".", "i", "o", "/", "a">>}) = 1

(***************************************************************************)
(* Depth accounting and the order of the steps of a run.                   *)
(***************************************************************************)
\* the invocations made so far
Calls == At({"call"})

\* C16: the seed is processed at depth 0, every recursive invocation runs
\* at its caller's depth + 1, and no invocation, active or completed, and
\* no fetch has a depth above max_depth.
C16_DepthAccounting ==
    /\ \A k \in Calls :
          IF trace[k].parent = <<>>
          THEN trace[k].url = SeedUrl /\ trace[k].depth = 0
          ELSE \E c \in Calls :
                  /\ c < k /\ trace[c].url = trace[k].parent
                  /\ trace[k].depth = trace[c].depth + 1
    /\ \A k \in DOMAIN trace : trace[k].depth <= max_depth
    /\ \A j \in DOMAIN stack :
          /\ stack[j].current_depth <= max_depth
          /\ stack[j].current_depth = Len(stack) - j

\* a page is fetched at depth max_depth = 2, two invocations below it
C16_Witness ==
    /\ max_depth = 2 /\ Len(stack) = 3
    /\ \E k \in At({"fetch"}) : trace[k].depth = 2 /\ trace[k].url = top.url

(***************************************************************************)
(* The run over pages that have sections and links at once: any content    *)
(* of Contents around any list of different links, MaxAnchors - 1 anchors  *)
(* in the whole run, every fetch succeeding.                               *)
(***************************************************************************)
FetchAnyPage ==
    /\ status = "running" /\ top.pc = "fetch"
    /\ \E content \in Contents :
          \E anchors \in SeqsUpTo(Hrefs, MaxAnchors - 1 - anchors_served) :
             /\ stack' = <<[top EXCEPT !.pc = "main",
                                       !.page = [content |-> content, anchors |-> anchors]]>>
                         \o Tail(stack)
             /\ trace' = Append(trace, Event("fetch", top.url, top.current_depth, <<>>, <<>>, 0,
                                             anchors, <<>>))
    /\ UNCHANGED <<max_depth, allow_external, visited, files, status>>

NextOrder ==
    \/ Start
    \/ FetchAnyPage
    \/ SaveMain
    \/ SkipSection
    \/ SaveSection
    \/ CompletedPage
    \/ SkipLink
    \/ Recurse
    \/ Return

SpecOrder == Init /\ [][NextOrder]_vars

\* the entry a is of an earlier step of a page than the entry b: the call,
\* the fetch, the whole-page document, the section documents by heading,
\* the extraction of the links
EarlierStep(a, b) ==
    \/ a.op = "call" /\ b.op # "call"
    \/ a.op \in FetchOps /\ b.op \in {"write", "links"}
    \/ a.op = "write" /\ b.op = "write" /\ a.sec < b.sec
    \/ a.op = "write" /\ b.op = "links"

\* for every trace entry, the position of the call of its page
Owner == [e \in DOMAIN trace |-> CHOOSE c \in Calls : trace[c].url = trace[e].url]

\* for every call, the position of the call of the page it was made from, 0
\* for the seed's
Caller ==
    [c \in Calls |->
        IF trace[c].parent = <<>> THEN 0
        ELSE CHOOSE b \in Calls : trace[b].url = trace[c].parent]

\* the entries of one page are in the order of its steps; own is Owner
StepsInOrder(own) ==
    \A j \in DOMAIN trace : \A k \in (j + 1)..Len(trace) :
        own[j] = own[k] => EarlierStep(trace[j], trace[k])

RECURSIVE IsUnder(_, _, _)
\* the page called at b is the page called at c or was reached from it
\* through links; caller is Caller
IsUnder(caller, b, c) ==
    IF b = c THEN TRUE
    ELSE IF b < c THEN FALSE
    ELSE IsUnder(caller, caller[b], c)

\* the subtree of every invocation is one stretch of the trace, from its call
DepthFirst(own, caller) ==
    \A c \in DOMAIN caller :
        \E subtree \in {{e \in DOMAIN trace : IsUnder(caller, own[e], c)}} :
            \A e \in DOMAIN trace :
                (c <= e /\ \E last \in subtree : e <= last) <=> e \in subtree

\* the first position of url in the list
FirstAt(links, url) ==
    CHOOSE i \in DOMAIN links : links[i] = url /\ \A j \in 1..(i - 1) : links[j] # url

\* the invocations made from a page come after the extraction of its links,
\* for links of the list and in the order of the list
LinksInDocumentOrder(caller) ==
    \A c \in DOMAIN caller : caller[c] # 0 =>
        \E l \in (caller[c] + 1)..(c - 1) :
            /\ trace[l].op = "links" /\ trace[l].url = trace[c].parent
            /\ trace[c].url \in Range(trace[l].links)
            /\ \A b \in DOMAIN caller :
                  (b < c /\ caller[b] = caller[c]) =>
                      FirstAt(trace[l].links, trace[b].url) < FirstAt(trace[l].links, trace[c].url)

\* the invocation of the page has returned, or was never made
Finished(url) == \A k \in DOMAIN stack : stack[k].url # url

\* no link of a finished page is left uncrawled
LinksAllTaken ==
    \A l \in Followed : Finished(trace[l].url) =>
        \A i \in DOMAIN trace[l].links : \E c \in Calls : trace[c].url = trace[l].links[i]

\* C17: for every page the fetch precedes the whole-page write, which
\* precedes the section writes in heading order; all its writes precede the
\* fetch of any page reached through its links; the links are crawled depth
\* first in document order, the subtree of one link being finished before
\* the next link is considered.
C17_PerPageOrdering ==
    \E own \in {Owner} : \E caller \in {Caller} :
        /\ StepsInOrder(own)
        /\ LinksInDocumentOrder(caller)
        /\ DepthFirst(own, caller)
        /\ LinksAllTaken

\* the seed has sections and two links, and the page of its first link has a
\* link of its own, which was crawled before the seed's second link
C17_Witness ==
    /\ status = "done"
    /\ \E w \in At({"write"}) : trace[w].url = SeedUrl /\ trace[w].sec > 0
    /\ \E c1 \in Calls : \E c2 \in Calls : \E c3 \in Calls :
          /\ c1 < c2 /\ c2 < c3
          /\ trace[c1].parent = SeedUrl
          /\ trace[c2].parent = trace[c1].url
          /\ trace[c3].parent = SeedUrl

\* the step is a fetch, with or without success
FetchStep == Len(trace') = Len(trace) + 1 /\ trace'[Len(trace')].op \in FetchOps

\* C18: visited only grows from one state to the next; a URL is in visited
\* before the step that fetches it, and a URL that has been fetched, even
\* when the fetch failed or the page had no content, is not fetched again.
C18_VisitedOnlyGrows ==
    [][ /\ visited \subseteq visited'
        /\ FetchStep =>
              /\ trace'[Len(trace')].url \in visited
              /\ \A k \in At(FetchOps) : trace[k].url # trace'[Len(trace')].url ]_vars

\* a page whose fetch failed or had no content is linked again by a page
\* that was processed later, and the run is over
C18_Witness ==
    /\ status = "done"
    /\ \E f \in At(FailureOps) : \E l \in Followed :
          /\ f < l
          /\ trace[f].url \in Range(trace[l].links)
          /\ trace[f].url \in visited

(***************************************************************************)
(* Split_Markdown.py: is_heading and split_by_headings.                    *)
(***************************************************************************)
MaxHashes == 6          \* #{1,6}

\* the number of "#" the line starts with
hashes(line_) == the({ Len(line) - Len(lstrip(line, {"#"})) : line \in {line_} })

\* re.match(r'^(#{1,6})\s+', line): <<is_heading, level>>
heading_match(line, n_) ==
    the({ IF n >= 1 /\ n <= MaxHashes /\ n < Len(line) /\ line[n + 1] \in Whitespace
          THEN <<TRUE, n>>
          ELSE <<FALSE, 0>> : n \in {n_} })

is_heading(line_) == the({ heading_match(line, hashes(line)) : line \in {line_} })

RECURSIVE split(_, _)
\* s.split(sep) for a one-character sep
split(s_, sep) ==
    the({ IF find(s, sep) = 0 THEN <<s>>
          ELSE <<before(s, find(s, sep))>> \o split(from(s, find(s, sep) + 1), sep)
          : s \in {s_} })

RECURSIVE join(_, _)
\* sep.join(strings)
join(sep, strings_) ==
    the({ IF strings = <<>> THEN <<>>
          ELSE IF Len(strings) = 1 THEN strings[1]
          ELSE strings[1] \o sep \o join(sep, Tail(strings)) : strings \in {strings_} })

\* Optional[int]: None is <<>>, the integer n is <<n>>
None == <<>>

\* "a heading we care about": is_head and (max_heading_level is None or
\* level <= max_heading_level), on the result of is_heading
cares_about(head_, max_heading_level) ==
    \E head \in {head_} :
        head[1] /\ (max_heading_level = None \/ head[2] <= max_heading_level[1])

\* the chunks with current_chunk added when it has a heading or content
save_current(chunks, current_chunk_) ==
    the({ IF current_chunk.heading # <<>> \/ current_chunk.content # <<>>
          THEN Append(chunks, [current_chunk EXCEPT !.content = join(<<"\n">>, @)])
          ELSE chunks : current_chunk \in {current_chunk_} })

\* cares_about that takes every heading, whatever max_heading_level is
line_splits_any(line_, max_heading_level) ==
    \E line \in {line_} : is_heading(line)[1]

line_splits(line_, max_heading_level) ==
    \E line \in {line_} : cares_about(is_heading(line), max_heading_level)

RECURSIVE split_loop(_, _, _, _)
\* the loop over the lines and the statements after it
split_loop(lines_, chunks_, current_chunk_, max_heading_level) ==
    the({ IF lines = <<>> THEN save_current(chunks, current_chunk)
          ELSE IF line_splits(Head(lines), max_heading_level)
          THEN split_loop(Tail(lines), save_current(chunks, current_chunk),
                          [heading |-> Head(lines), content |-> <<>>,
                           level |-> is_heading(Head(lines))[2]],
                          max_heading_level)
          ELSE split_loop(Tail(lines), chunks,
                          [current_chunk EXCEPT !.content = Append(@, Head(lines))],
                          max_heading_level)
          : lines \in {lines_}, chunks \in {chunks_}, current_chunk \in {current_chunk_} })

split_by_headings(content, max_heading_level) ==
    split_loop(split(content, "\n"), <<>>,
               [heading |-> <<>>, content |-> <<>>, level |-> 0], max_heading_level)

(***************************************************************************)
(* split_by_headings on its own: one call on any content of at most        *)
(* MaxLines lines over LineSamples, for --max-level absent, 1 or 2.        *)
(***************************************************************************)
MaxLines == 3           \* the content has at most MaxLines lines

LineSamples == { <<"#", " ", "A">>, <<"#", "#", " ", "B">>, <<"t", "e", "x", "t">>, <<>>, <<"#", "A">>, <<"#", "#", "#", "#", "#", "#", "#", " ", "A">> }

MaxLevels == {None, <<1>>, <<2>>}

RECURSIVE SplitCalledOn(_, _, _)
\* the call is on the content, or on the content with up to n more lines
SplitCalledOn(content, n, max_heading_level) ==
    \/ stack = <<Call("split_by_headings", <<content, max_heading_level>>)>>
    \/ /\ n > 0
       /\ \E line \in LineSamples :
             SplitCalledOn(content \o <<"\n">> \o line, n - 1, max_heading_level)

InitSplit ==
    /\ max_depth = 0 /\ allow_external = FALSE /\ visited = {} /\ files = <<>>
    /\ trace = <<>> /\ status = "running"
    /\ \E max_heading_level \in MaxLevels : \E line \in LineSamples :
          SplitCalledOn(line, MaxLines - 1, max_heading_level)

SplitByHeadings ==
    /\ top.pc = "call" /\ top.fn = "split_by_headings"
    /\ stack' = <<Returned(top, split_by_headings(top.args[1], top.args[2]))>>
    /\ UNCHANGED <<max_depth, allow_external, visited, files, trace, status>>

NextSplit == SplitByHeadings

SpecSplit == InitSplit /\ [][NextSplit]_vars

\* the positions of the line ends in the content
LineEnds(content) == {i \in DOMAIN content : content[i] = "\n"} \cup {Len(content) + 1}

\* the position at which the j-th line ends, 0 for j = 0
LineEnd(content, j) ==
    IF j = 0 THEN 0
    ELSE CHOOSE i \in LineEnds(content) : Cardinality({m \in LineEnds(content) : m <= i}) = j

\* the lines a to b of the content, as they stand in it
LinesFrom(content, a, b) ==
    IF a > b THEN <<>> ELSE SubSeq(content, LineEnd(content, a - 1) + 1, LineEnd(content, b) - 1)

\* the line starts with n "#" followed by white space
HeadingOfLevel(line, n) ==
    /\ n < Len(line)
    /\ \A k \in 1..n : line[k] = "#"
    /\ line[n + 1] \in Whitespace

\* the levels at which the line is a heading to split at
SplitLevels(line, max_heading_level) ==
    {n \in 1..MaxHashes :
        HeadingOfLevel(line, n) /\ (max_heading_level = None \/ n <= max_heading_level[1])}

\* the lines at which a chunk starts: the headings to split at, and 0 when
\* the first line is not one
ChunkStarts(content, max_heading_level) ==
    {j \in 0..Cardinality(LineEnds(content)) :
        IF j = 0 THEN SplitLevels(LinesFrom(content, 1, 1), max_heading_level) = {}
        ELSE SplitLevels(LinesFrom(content, j, j), max_heading_level) # {}}

\* the last line of the chunk that starts at the line j
ChunkEnd(starts, content, j) ==
    IF \E s \in starts : s > j
    THEN (CHOOSE s \in starts : s > j /\ \A r \in starts : r > j => s <= r) - 1
    ELSE Cardinality(LineEnds(content))

\* the chunk that is to start at the line j
ChunkAt(starts, content, max_heading_level, j) ==
    [heading |-> IF j = 0 THEN <<>> ELSE LinesFrom(content, j, j),
     content |-> LinesFrom(content, j + 1, ChunkEnd(starts, content, j)),
     level   |-> IF j = 0 THEN 0
                 ELSE CHOOSE n \in SplitLevels(LinesFrom(content, j, j), max_heading_level) : TRUE]

\* chunks is the list of the chunks at the starts, in the order of the lines
ChunksAre(chunks, starts, content, max_heading_level) ==
    /\ Len(chunks) = Cardinality(starts)
    /\ \A j \in starts :
          chunks[Cardinality({s \in starts : s <= j})]
             = ChunkAt(starts, content, max_heading_level, j)

\* C19: split_by_headings partitions the lines in order: every heading of a
\* level up to max_heading_level (every heading when it is None) starts one
\* chunk and is its heading, every other line is in the content of the
\* chunk of the nearest such heading before it, and there is one chunk per
\* such heading, plus one when the first line is not one.
C19_ChunksPartitionLines ==
    (top.pc = "returned" /\ top.fn = "split_by_headings") =>
        \E starts \in {ChunkStarts(top.args[1], top.args[2])} :
            ChunksAre(top.args[3], starts, top.args[1], top.args[2])

\* "text", "# A", "## B" split at level 1: the chunk of the text and the
\* chunk of # A, which holds ## B
C19_Witness ==
    /\ top.pc = "returned" /\ top.fn = "split_by_headings"
    /\ top.args[1] = <<"t", "e", "x", "t">> \o <<"\n">> \o <<"#", " ", "A">> \o <<"\n">> \o <<"#", "#", " ", "B">>
    /\ top.args[2] = <<1>>
    /\ top.args[3] = << [heading |-> <<>>, content |-> <<"t", "e", "x", "t">>, level |-> 0],
                        [heading |-> <<"#", " ", "A">>, content |-> <<"#", "#", " ", "B">>, level |-> 1] >>

(***************************************************************************)
(* Split_Markdown.py: save_chunks, process_markdown_file,                  *)
(* find_markdown_files and main.  A directory tree is a set of files, each *)
(* with its path below the input directory and its content; the output     *)
(* directory is `files`, and the trace has one entry per chunk saved.      *)
(***************************************************************************)
\* s.endswith(p)
endswith(s_, p_) ==
    \E s \in {s_}, p \in {p_} : Len(p) <= Len(s) /\ SubSeq(s, Len(s) - Len(p) + 1, Len(s)) = p

\* \w
WordChars == SchemeChars \cup Range(Digits) \cup {"_"}

RECURSIVE re_sub_not(_, _)
\* re.sub('[^<class>]', '', s)
re_sub_not(cs_, s_) ==
    the({ IF s = <<>> THEN <<>>
          ELSE (IF Head(s) \in cs THEN <<Head(s)>> ELSE <<>>) \o re_sub_not(cs, Tail(s))
          : cs \in {cs_}, s \in {s_} })

RECURSIVE re_sub_runs(_, _, _)
\* re.sub('[<class>]+', repl, s)
re_sub_runs(cs_, repl_, s_) ==
    the({ IF s = <<>> THEN <<>>
          ELSE IF Head(s) \in cs THEN repl \o re_sub_runs(cs, repl, lstrip(s, cs))
          ELSE <<Head(s)>> \o re_sub_runs(cs, repl, Tail(s))
          : cs \in {cs_}, repl \in {repl_}, s \in {s_} })

\* f"{i:03d}" for 0 <= i <= 99
format_03d(i_) ==
    the({ IF i < 10 THEN <<"0", "0">> \o str(i) ELSE <<"0">> \o str(i) : i \in {i_} })

\* "Create a filename based on the heading if possible"
heading_filename(heading_) ==
    the({ IF heading # <<>>
          THEN re_sub_runs({"-"} \cup Whitespace, <<"-">>,
                  lower(strip(re_sub_not(WordChars \cup Whitespace \cup {"-"},
                                         strip(lstrip(heading, {"#"}), Whitespace)),
                              Whitespace)))
          ELSE <<"c", "h", "u", "n", "k">> : heading \in {heading_} })

\* the name of the file of the i-th chunk in the output directory
output_path(base_filename, i, chunk) ==
    base_filename \o <<"_">> \o format_03d(i) \o <<"_">> \o heading_filename(chunk.heading)
    \o <<".", "m", "d">>

\* Path(markdown_file).name
path_name(markdown_file_) ==
    the({ from(markdown_file, rfind(markdown_file, "/") + 1) : markdown_file \in {markdown_file_} })

\* the stem of a name whose last "." is at dotIndex
stem_at(name, dotIndex_) ==
    the({ IF dotIndex > 1 /\ dotIndex < Len(name) THEN before(name, dotIndex) ELSE name
          : dotIndex \in {dotIndex_} })

\* Path(markdown_file).stem
stem(markdown_file) ==
    the({ stem_at(name, rfind(name, ".")) : name \in {path_name(markdown_file)} })

\* what is written for a chunk, and the trace entry of the write
ChunkFile(base_filename, chunk) ==
    [source |-> base_filename, heading |-> chunk.heading, content |-> chunk.content]

Saved(markdown_file, i, name) == [op |-> "saved", file |-> markdown_file, i |-> i, name |-> name]

RECURSIVE saved_files(_, _, _, _)
\* the output directory after the loop of save_chunks from the i-th chunk on
saved_files(output_, chunks_, base_filename, i_) ==
    the({ IF i >= Len(chunks) THEN output
          ELSE saved_files(
                  [n \in (DOMAIN output) \cup {output_path(base_filename, i, chunks[i + 1])} |->
                      IF n = output_path(base_filename, i, chunks[i + 1])
                      THEN ChunkFile(base_filename, chunks[i + 1])
                      ELSE output[n]],
                  chunks, base_filename, i + 1)
          : output \in {output_}, chunks \in {chunks_}, i \in {i_} })

\* the trace entries of the loop of save_chunks
saved_entries(markdown_file, chunks_, base_filename_) ==
    the({ [k \in 1..Len(chunks) |->
              Saved(markdown_file, k - 1, output_path(base_filename, k - 1, chunks[k]))]
          : chunks \in {chunks_}, base_filename \in {base_filename_} })

\* file.lower().endswith('.md')
is_markdown(file) == endswith(lower(file), <<".", "m", "d">>)

\* the files that find_markdown_files collects: os.walk visits every
\* directory, os.listdir the input directory alone
found_files(tree, recursive) ==
    {f \in tree : is_markdown(path_name(f.path)) /\ (recursive \/ ~contains(f.path, <<"/">>))}

\* the lists of the files of S, in any order
Listings(S) == {l \in [1..Cardinality(S) -> S] : Range(l) = S}

MaxFiles == 2           \* the input directory tree has at most MaxFiles files

PathSamples == { <<"a", ".", "m", "d">>, <<"a", ".", "M", "D">>, <<"d", "/", "a", ".", "m", "d">>, <<"b", ".", "m", "d">>, <<"a", ".", "t", "x", "t">> }

ContentSamples == { <<"#", " ", "A">>, <<"t", "e", "x", "t">> \o <<"\n">> \o <<"#", " ", "B">> }

\* the directory trees: every path is of one file
Trees ==
    {t \in SUBSET [path : PathSamples, content : ContentSamples] :
        /\ Cardinality(t) <= MaxFiles
        /\ \A f \in t : \A g \in t : f.path = g.path => f = g}

\* main after parse_args: the input directory exists
InitChunks ==
    /\ max_depth = 0 /\ allow_external = FALSE /\ visited = {} /\ files = <<>>
    /\ trace = <<>> /\ status = "running"
    /\ \E tree \in Trees : \E recursive \in BOOLEAN : \E max_level \in MaxLevels :
          stack = <<[fn |-> "main", pc |-> "find", input_dir |-> tree,
                     recursive |-> recursive, max_level |-> max_level,
                     markdown_files |-> <<>>]>>

\* markdown_files = find_markdown_files(...); return 0 when there is none
FindMarkdownFiles ==
    /\ top.fn = "main" /\ top.pc = "find"
    /\ \E markdown_files \in Listings(found_files(top.input_dir, top.recursive)) :
          stack' = <<[top EXCEPT !.markdown_files = markdown_files,
                                 !.pc = IF markdown_files = <<>> THEN "returned" ELSE "process"]>>
    /\ UNCHANGED <<max_depth, allow_external, visited, files, trace, status>>

\* process_markdown_file on the next file: read, split, save the chunks
ProcessMarkdownFile ==
    /\ top.fn = "main" /\ top.pc = "process" /\ top.markdown_files # <<>>
    /\ \E md_file \in {Head(top.markdown_files)} :
       \E chunks \in {split_by_headings(md_file.content, top.max_level)} :
          /\ files' = saved_files(files, chunks, stem(md_file.path), 0)
          /\ trace' = trace \o saved_entries(md_file.path, chunks, stem(md_file.path))
    /\ stack' = <<[top EXCEPT !.markdown_files = Tail(@)]>>
    /\ UNCHANGED <<max_depth, allow_external, visited, status>>

\* process_markdown_file on the next file: reading it raises, the error is
\* printed
ProcessFails ==
    /\ top.fn = "main" /\ top.pc = "process" /\ top.markdown_files # <<>>
    /\ stack' = <<[top EXCEPT !.markdown_files = Tail(@)]>>
    /\ UNCHANGED <<max_depth, allow_external, visited, files, trace, status>>

\* "All files processed": return 0
AllProcessed ==
    /\ top.fn = "main" /\ top.pc = "process" /\ top.markdown_files = <<>>
    /\ stack' = <<[top EXCEPT !.pc = "returned"]>>
    /\ UNCHANGED <<max_depth, allow_external, visited, files, trace, status>>

NextChunks ==
    \/ FindMarkdownFiles
    \/ ProcessMarkdownFile
    \/ ProcessFails
    \/ AllProcessed

SpecChunks == InitChunks /\ [][NextChunks]_vars

\* C20: across all the files processed in one run, recursive or not, every
\* chunk is written to a path of its own: no two chunks saved have the same
\* output path.
C20_ChunkPathsDistinct ==
    \A j \in At({"saved"}) : \A k \in At({"saved"}) :
        j # k => trace[j].name # trace[k].name

=============================================================================
